---------------------------- MODULE Spec2Model ----------------------------
(***************************************************************************)
(* Model of broot's verb execution templating (src/verb):                  *)
(*   - GROUP, the placeholder grammar                     (mod.rs)         *)
(*   - ExecutionStringBuilder                  (execution_builder.rs)      *)
(*   - InternalExecution                       (internal_execution.rs)     *)
(*                                                                         *)
(* Text encoding.  A Rust string is modelled as a sequence of atoms.  An   *)
(* atom is either one character the code inspects individually             *)
(*      {  }  :  space  tab  "  '  \  /  !                                 *)
(* or an indivisible word of ordinary characters ("file", "vi", ...).      *)
(* The words used below form a uniquely decodable code, so two texts are   *)
(* equal as Rust strings exactly when they are equal as atom sequences,    *)
(* and every operation of the code (regex classes, whitespace splitting,   *)
(* quote detection, path separators) looks only at the special atoms.      *)
(***************************************************************************)
EXTENDS Naturals, Sequences, FiniteSets, TLC

---------------------------------------------------------------------------
(* Option<T> *)
None == [some |-> FALSE]
Some(x) == [some |-> TRUE, val |-> x]

(* the special characters *)
LB == "{"
RB == "}"
COLON == ":"
SP == " "
TAB == "\t"
DQ == "\""
SQ == "'"
BSL == "\\"
SEP == "/"
BANG == "!"

(* char::is_whitespace, on the characters of the model *)
IsWhitespace(c) == c \in {SP, TAB}

(* the character class [^{}:] of GROUP *)
GroupChar(c) == c \notin {LB, RB, COLON}

(* index of the first position >= i of s that is not in [^{}:]  *)
(* (Len(s)+1 when the run reaches the end): the greedy + of GROUP *)
RECURSIVE RunEnd(_, _)
RunEnd(s, i) ==
    IF i > Len(s) \/ ~GroupChar(s[i]) THEN i ELSE RunEnd(s, i + 1)

NoMatch == [ok |-> FALSE]

(* GROUP = \{([^{}:]+)(?::([^{}:]+))?\}  anchored at position i of s.      *)
(* Both classes exclude the delimiters, so the match is deterministic:     *)
(* ok, the indexes of the two braces, capture 1 and optional capture 2.    *)
GROUP(s, i) ==
    IF i > Len(s) \/ s[i] # LB THEN NoMatch
    ELSE LET j == RunEnd(s, i + 1) IN
         IF j = i + 1 \/ j > Len(s) THEN NoMatch
         ELSE IF s[j] = RB
              THEN [ok |-> TRUE, start |-> i, end |-> j,
                    name |-> SubSeq(s, i + 1, j - 1), fmt |-> None]
         ELSE IF s[j] = COLON
              THEN LET k == RunEnd(s, j + 1) IN
                   IF k = j + 1 \/ k > Len(s) \/ s[k] # RB THEN NoMatch
                   ELSE [ok |-> TRUE, start |-> i, end |-> k,
                         name |-> SubSeq(s, i + 1, j - 1),
                         fmt |-> Some(SubSeq(s, j + 1, k - 1))]
         ELSE NoMatch

(* ec[0]: the matched text of a capture *)
Whole(ec) ==
    <<LB>> \o ec.name
           \o (IF ec.fmt.some THEN <<COLON>> \o ec.fmt.val ELSE <<>>)
           \o <<RB>>

---------------------------------------------------------------------------
(* Paths *)

RECURSIVE LastSep(_, _)
LastSep(p, i) ==
    IF i = 0 THEN 0 ELSE IF p[i] = SEP THEN i ELSE LastSep(p, i - 1)

(* std::path::Path::parent, on normalized paths (no trailing or doubled    *)
(* separator): None for the root and for the empty path, the empty path    *)
(* for a single relative component.                                        *)
PathParent(p) ==
    IF p = <<>> \/ p = <<SEP>> THEN None
    ELSE LET i == LastSep(p, Len(p)) IN
         IF i = 0 THEN Some(<<>>)
         ELSE IF i = 1 THEN Some(<<SEP>>)
         ELSE Some(SubSeq(p, 1, i - 1))

(* the directories of the file system the expansion runs on *)
Directories == { <<SEP>>, <<SEP, "d">>, <<SEP, "my", SP, "dir">> }

(* crate::path::closest_dir: the path itself when it is a directory,       *)
(* otherwise its parent (the path itself when it has none)                 *)
closest_dir(p) ==
    IF p \in Directories THEN p
    ELSE IF PathParent(p).some THEN PathParent(p).val ELSE p

(* the characters that need no quoting in a shell word *)
SimpleChar(c) == c \notin {SP, TAB, DQ, SQ, BSL, LB, RB, BANG, COLON}

RECURSIVE EscapeSingleQuotes(_)
EscapeSingleQuotes(s) ==
    IF s = <<>> THEN <<>>
    ELSE (IF Head(s) = SQ THEN <<SQ, BSL, SQ, SQ>> ELSE <<Head(s)>>)
         \o EscapeSingleQuotes(Tail(s))

(* crate::path::escape_for_shell: a path of simple characters is kept, any *)
(* other is wrapped in single quotes                                       *)
escape_for_shell(p) ==
    IF \A i \in 1..Len(p) : SimpleChar(p[i]) THEN p
    ELSE <<SQ>> \o EscapeSingleQuotes(p) \o <<SQ>>

(* crate::path::path_str_from: an absolute value is kept, a relative one   *)
(* is joined to the base directory                                         *)
path_str_from(base, value) ==
    IF value # <<>> /\ value[1] = SEP THEN value
    ELSE IF base = <<>> THEN value
    ELSE IF base[Len(base)] = SEP THEN base \o value
    ELSE base \o <<SEP>> \o value

---------------------------------------------------------------------------
(* ExecutionStringBuilder *)

Digit(d) ==
    CASE d = 0 -> "0" [] d = 1 -> "1" [] d = 2 -> "2" [] d = 3 -> "3"
      [] d = 4 -> "4" [] d = 5 -> "5" [] d = 6 -> "6" [] d = 7 -> "7"
      [] d = 8 -> "8" [] d = 9 -> "9"

(* LineNumber::to_string: the decimal rendering *)
RECURSIVE to_string(_)
to_string(n) ==
    IF n < 10 THEN <<Digit(n)>> ELSE to_string(n \div 10) \o <<Digit(n % 10)>>

(* the names get_raw_capture_replacement resolves from the selection *)
StandardNames ==
    { <<"line">>, <<"file">>, <<"directory">>, <<"parent">>,
      <<"other-panel-file">>, <<"other-panel-directory">>,
      <<"other-panel-parent">> }

from_selection(sel) ==
    [sel |-> sel, other_file |-> None, invocation_values |-> None]

(* InvocationParser::parse: a parser is its invocation pattern, a literal  *)
(* prefix followed by one named group taking the rest of the arguments;    *)
(* None when the arguments do not start with the literal prefix            *)
IsPrefix(pre, s) == Len(pre) <= Len(s) /\ SubSeq(s, 1, Len(pre)) = pre

parse(parser, args) ==
    IF IsPrefix(parser.prefix, args)
    THEN Some(parser.group :> SubSeq(args, Len(parser.prefix) + 1, Len(args)))
    ELSE None

(* as from_invocation, missing arguments parsed as the empty string *)
from_invocation_empty_args(invocation_parser, sel, other_file, invocation_args) ==
    [sel |-> sel,
     other_file |-> other_file,
     invocation_values |->
        IF invocation_parser.some
        THEN parse(invocation_parser.val,
                   IF invocation_args.some THEN invocation_args.val ELSE <<>>)
        ELSE None]

(* invocation_parser.as_ref().zip(invocation_args.as_ref())                *)
(*     .and_then(|(parser, args)| parser.parse(args))                      *)
from_invocation(invocation_parser, sel, other_file, invocation_args) ==
    [sel |-> sel,
     other_file |-> other_file,
     invocation_values |->
        IF invocation_parser.some /\ invocation_args.some
        THEN parse(invocation_parser.val, invocation_args.val)
        ELSE None]

get_file(b) == b.sel.path

get_directory(b) == closest_dir(b.sel.path)

(* file.parent().unwrap_or(file) *)
get_parent(b) ==
    IF PathParent(b.sel.path).some THEN PathParent(b.sel.path).val
    ELSE b.sel.path

path_to_string(path, escape) ==
    IF escape THEN escape_for_shell(path) ELSE path

(* str's Debug rendering, as format!("{:?}") writes it *)
RECURSIVE EscapeDebug(_)
EscapeDebug(s) ==
    IF s = <<>> THEN <<>>
    ELSE (CASE Head(s) = DQ -> <<BSL, DQ>>
            [] Head(s) = BSL -> <<BSL, BSL>>
            [] Head(s) = TAB -> <<BSL, "t">>
            [] OTHER -> <<Head(s)>>)
         \o EscapeDebug(Tail(s))

(* format!("invalid format: {:?}", fmt) *)
InvalidFormat(fmt) ==
    <<"invalid", SP, "format", COLON, SP, DQ>> \o EscapeDebug(fmt) \o <<DQ>>

(* as InvocationValue, an unrecognized format falling back to the value *)
InvocationValue_format_ignored(b, ec) ==
    IF b.invocation_values.some /\ ec.name \in DOMAIN b.invocation_values.val
    THEN LET value == b.invocation_values.val[ec.name] IN
         IF ec.fmt.some /\ ec.fmt.val = <<"path-from-directory">>
         THEN Some(path_str_from(get_directory(b), value))
         ELSE IF ec.fmt.some /\ ec.fmt.val = <<"path-from-parent">>
         THEN Some(path_str_from(get_parent(b), value))
         ELSE Some(value)
    ELSE None

(* the arm `_ =>` of get_raw_capture_replacement *)
InvocationValue(b, ec) ==
    IF b.invocation_values.some /\ ec.name \in DOMAIN b.invocation_values.val
    THEN LET value == b.invocation_values.val[ec.name] IN
         IF ec.fmt.some
         THEN CASE ec.fmt.val = <<"path-from-directory">> ->
                       Some(path_str_from(get_directory(b), value))
                [] ec.fmt.val = <<"path-from-parent">> ->
                       Some(path_str_from(get_parent(b), value))
                [] OTHER -> Some(InvalidFormat(ec.fmt.val))
         ELSE Some(value)
    ELSE None

OtherPanelParent(b, escape) ==
    IF b.other_file.some /\ PathParent(b.other_file.val).some
    THEN Some(path_to_string(PathParent(b.other_file.val).val, escape))
    ELSE None

(* the arms of the standard names *)
StandardValue(b, ec, escape) ==
    CASE ec.name = <<"line">> -> Some(to_string(b.sel.line))
      [] ec.name = <<"file">> -> Some(path_to_string(get_file(b), escape))
      [] ec.name = <<"directory">> ->
             Some(path_to_string(get_directory(b), escape))
      [] ec.name = <<"parent">> -> Some(path_to_string(get_parent(b), escape))
      [] ec.name = <<"other-panel-file">> ->
             IF b.other_file.some
             THEN Some(path_to_string(b.other_file.val, escape)) ELSE None
      [] ec.name = <<"other-panel-directory">> ->
             IF b.other_file.some
             THEN Some(path_to_string(closest_dir(b.other_file.val), escape))
             ELSE None
      [] ec.name = <<"other-panel-parent">> -> OtherPanelParent(b, escape)

(* as get_raw_capture_replacement, the invocation values looked up first *)
get_raw_capture_replacement_values_first(b, ec, escape) ==
    IF InvocationValue(b, ec).some THEN InvocationValue(b, ec)
    ELSE IF ec.name \in StandardNames THEN StandardValue(b, ec, escape)
    ELSE None

(* match name { ... }: the standard names first, any other name in the     *)
(* invocation values                                                       *)
get_raw_capture_replacement(b, ec, escape) ==
    IF ec.name \in StandardNames THEN StandardValue(b, ec, escape)
    ELSE InvocationValue(b, ec)

(* as get_capture_replacement, an unresolved placeholder removed *)
get_capture_replacement_removing(b, ec, escape) ==
    LET r == get_raw_capture_replacement(b, ec, escape) IN
    IF r.some THEN r.val ELSE <<>>

(* .unwrap_or_else(|| ec[0].to_string()) *)
get_capture_replacement(b, ec, escape) ==
    LET r == get_raw_capture_replacement(b, ec, escape) IN
    IF r.some THEN r.val ELSE Whole(ec)

(* Regex::replace_all with a closure: the matches are found left to right, *)
(* each search resuming after the previous match; the text the closure     *)
(* returns is copied to the output and not searched                        *)
RECURSIVE ReplaceFrom(_, _, _, _)
ReplaceFrom(b, s, i, escape) ==
    IF i > Len(s) THEN <<>>
    ELSE LET ec == GROUP(s, i) IN
         IF ec.ok
         THEN get_capture_replacement(b, ec, escape)
              \o ReplaceFrom(b, s, ec.end + 1, escape)
         ELSE <<s[i]>> \o ReplaceFrom(b, s, i + 1, escape)

(* as replace_all, the result searched again *)
replace_all_rescanning(b, s, escape) ==
    ReplaceFrom(b, ReplaceFrom(b, s, 1, escape), 1, escape)

replace_all(b, s, escape) == ReplaceFrom(b, s, 1, escape)

(* the calls of the closure that replace_all makes on s, in order: the     *)
(* capture and the text returned for it                                    *)
RECURSIVE CallsFrom(_, _, _, _)
CallsFrom(b, s, i, escape) ==
    IF i > Len(s) THEN <<>>
    ELSE LET ec == GROUP(s, i) IN
         IF ec.ok
         THEN << [ec |-> ec, escape |-> escape,
                  text |-> get_capture_replacement(b, ec, escape)] >>
              \o CallsFrom(b, s, ec.end + 1, escape)
         ELSE CallsFrom(b, s, i + 1, escape)

---------------------------------------------------------------------------
(* splitty::split_unquoted_whitespace *)

RECURSIVE SkipWhitespace(_, _)
SkipWhitespace(s, i) ==
    IF i <= Len(s) /\ IsWhitespace(s[i]) THEN SkipWhitespace(s, i + 1) ELSE i

(* first whitespace position >= i, Len(s)+1 when there is none *)
RECURSIVE NextWhitespace(_, _)
NextWhitespace(s, i) ==
    IF i > Len(s) \/ IsWhitespace(s[i]) THEN i ELSE NextWhitespace(s, i + 1)

(* the quote closing a token opened at a quote: the first quote at or      *)
(* after i that ends the string or is followed by whitespace; 0 if none    *)
RECURSIVE ClosingQuote(_, _)
ClosingQuote(s, i) ==
    IF i > Len(s) THEN 0
    ELSE IF s[i] = DQ /\ (i = Len(s) \/ IsWhitespace(s[i + 1])) THEN i
    ELSE ClosingQuote(s, i + 1)

(* The tokens of s: runs of non-whitespace, except that a token starting   *)
(* with a double quote runs to its closing quote, whitespace included (to  *)
(* the end of the string when the quote is never closed).  A quote inside  *)
(* a token is an ordinary character.  unwrap_quotes(true) strips the       *)
(* quotes that delimit a token.                                            *)
RECURSIVE SplitFrom(_, _, _)
SplitFrom(s, i, unwrap) ==
    LET a == SkipWhitespace(s, i) IN
    IF a > Len(s) THEN <<>>
    ELSE IF s[a] = DQ
         THEN LET c == ClosingQuote(s, a + 1) IN
              IF c = 0
              THEN << SubSeq(s, IF unwrap THEN a + 1 ELSE a, Len(s)) >>
              ELSE << IF unwrap THEN SubSeq(s, a + 1, c - 1)
                                ELSE SubSeq(s, a, c) >>
                   \o SplitFrom(s, c + 1, unwrap)
         ELSE LET e == NextWhitespace(s, a) IN
              << SubSeq(s, a, e - 1) >> \o SplitFrom(s, e, unwrap)

split_unquoted_whitespace(s, unwrap) == SplitFrom(s, 1, unwrap)

(* Vec<String>::join(" ") *)
RECURSIVE join(_)
join(tokens) ==
    IF tokens = <<>> THEN <<>>
    ELSE IF Len(tokens) = 1 THEN tokens[1]
    ELSE tokens[1] \o <<SP>> \o join(Tail(tokens))

(* the paths Path::exists finds on the file system *)
ExistingPaths == Directories \cup { <<SEP, "d", SEP, "f">> }

(* the closure of shell_exec_string's map: path.to_str() of Path::new(token) *)
(* is the token's own text                                                  *)
ShellToken(token) ==
    IF token \in ExistingPaths THEN token ELSE token

(* as shell_exec_string, the quotes unwrapped *)
shell_exec_string_unwrapping(b, exec_pattern) ==
    LET replaced == replace_all(b, exec_pattern, TRUE)
        tokens == split_unquoted_whitespace(replaced, TRUE)
    IN join([i \in 1..Len(tokens) |-> ShellToken(tokens[i])])

shell_exec_string(b, exec_pattern) ==
    LET replaced == replace_all(b, exec_pattern, TRUE)
        tokens == split_unquoted_whitespace(replaced, FALSE)
    IN join([i \in 1..Len(tokens) |-> ShellToken(tokens[i])])

(* as exec_token, the placeholders expanded before the split *)
exec_token_expanding_first(b, exec_pattern) ==
    split_unquoted_whitespace(replace_all(b, exec_pattern, FALSE), TRUE)

exec_token(b, exec_pattern) ==
    LET tokens == split_unquoted_whitespace(exec_pattern, TRUE)
    IN [i \in 1..Len(tokens) |-> replace_all(b, tokens[i], FALSE)]

(* the closure calls of each mode, in order *)
RECURSIVE Flatten(_)
Flatten(ss) == IF ss = <<>> THEN <<>> ELSE Head(ss) \o Flatten(Tail(ss))

ShellCalls(b, exec_pattern) == CallsFrom(b, exec_pattern, 1, TRUE)

TokenCalls(b, exec_pattern) ==
    LET tokens == split_unquoted_whitespace(exec_pattern, TRUE)
    IN Flatten([i \in 1..Len(tokens) |-> CallsFrom(b, tokens[i], 1, FALSE)])

---------------------------------------------------------------------------
(* VerbInvocation and InternalExecution *)

RECURSIVE TrimStart(_)
TrimStart(s) ==
    IF s # <<>> /\ IsWhitespace(Head(s)) THEN TrimStart(Tail(s)) ELSE s

RECURSIVE TrimEnd(_)
TrimEnd(s) ==
    IF s # <<>> /\ IsWhitespace(s[Len(s)])
    THEN TrimEnd(SubSeq(s, 1, Len(s) - 1)) ELSE s

(* first position >= i holding whitespace or a bang, Len(s)+1 if none *)
RECURSIVE NameEnd(_, _)
NameEnd(s, i) ==
    IF i > Len(s) \/ IsWhitespace(s[i]) \/ s[i] = BANG THEN i
    ELSE NameEnd(s, i + 1)

(* VerbInvocation::from: the string is stripped, an introducing colon is   *)
(* dropped; name, then an immediate bang, then after the first run of      *)
(* whitespace the raw arguments, absent when nothing follows               *)
VerbInvocationFrom(invocation) ==
    LET t == TrimEnd(TrimStart(invocation))
        s == IF t # <<>> /\ Head(t) = COLON THEN Tail(t) ELSE t
        e == NameEnd(s, 1)
        bang == e <= Len(s) /\ s[e] = BANG
        a == SkipWhitespace(s, IF bang THEN e + 1 ELSE e)
    IN [name |-> SubSeq(s, 1, e - 1),
        bang |-> bang,
        args |-> IF a > Len(s) THEN None ELSE Some(SubSeq(s, a, Len(s)))]

(* the catalog of internals *)
Internals == {"focus", "back", "toggle_hidden"}

(* Internal::name *)
InternalName(internal) == << internal >>

(* Internal::try_from(name) *)
InternalTryFrom(name) ==
    IF \E i \in Internals : InternalName(i) = name
    THEN Some(CHOOSE i \in Internals : InternalName(i) = name)
    ELSE None

from_internal(internal) ==
    [internal |-> internal, bang |-> FALSE, arg |-> None]

from_internal_bang(internal, bang) ==
    [internal |-> internal, bang |-> bang, arg |-> None]

ConfError == [ok |-> FALSE, err |-> "ConfError"]

(* as try_from, the bang of the invocation dropped *)
try_from_without_bang(invocation_str) ==
    LET invocation == VerbInvocationFrom(invocation_str)
        internal == InternalTryFrom(invocation.name)
    IN IF ~internal.some THEN ConfError
       ELSE [ok |-> TRUE,
             val |-> [internal |-> internal.val,
                      bang |-> FALSE,
                      arg |-> invocation.args]]

(* InternalExecution::try_from *)
try_from(invocation_str) ==
    LET invocation == VerbInvocationFrom(invocation_str)
        internal == InternalTryFrom(invocation.name)
    IN IF ~internal.some THEN ConfError
       ELSE [ok |-> TRUE,
             val |-> [internal |-> internal.val,
                      bang |-> invocation.bang,
                      arg |-> invocation.args]]

(* InternalExecution::as_desc_code *)
as_desc_code(x) ==
    IF x.arg.some
    THEN Some(<<COLON>> \o InternalName(x.internal)
              \o (IF x.bang THEN <<BANG>> ELSE <<>>)
              \o <<SP>> \o x.arg.val)
    ELSE None

---------------------------------------------------------------------------
(* The inputs *)

(* longest mix of pieces in an execution pattern *)
MaxPieces == 2

(* a placeholder token *)
PH(name) == <<LB>> \o name \o <<RB>>
PHF(name, fmt) == <<LB>> \o name \o <<COLON>> \o fmt \o <<RB>>

(* the pieces mixed freely: a word, a space, a quote, a standard, a known, *)
(* a wrongly formatted and an unknown placeholder, its name with spaces    *)
Pieces ==
    { <<"vi">>, <<SP>>, <<DQ>>,
      PH(<<"file">>), PH(<<"a">>), PHF(<<"a">>, <<"bad">>),
      PH(<<"u", SP, SP, "v">>) }

RECURSIVE PieceSeqs(_)
PieceSeqs(n) ==
    IF n = 0 THEN { <<>> }
    ELSE LET shorter == PieceSeqs(n - 1) IN
         shorter \cup { p \o q : p \in shorter, q \in Pieces }

(* every kind of placeholder token *)
PlaceholderTokens ==
    { PH(n) : n \in StandardNames }
    \cup { PH(<<"a">>), PH(<<"u">>), PH(<<"u", SP, SP, "v">>),
           PHF(<<"a">>, <<"path-from-directory">>),
           PHF(<<"a">>, <<"path-from-parent">>),
           PHF(<<"a">>, <<"bad">>),
           PHF(<<"u">>, <<"bad">>),
           PHF(<<"file">>, <<"bad">>) }

(* each placeholder alone, as an argument, twice, in a quoted segment, and *)
(* quoted after itself                                                     *)
PlaceholderPatterns ==
    UNION { { x, <<"vi", SP>> \o x, x \o x, <<DQ>> \o x \o <<SP, "vi", DQ>>,
              x \o <<SP, SP, DQ>> \o x \o <<DQ>> } :
            x \in PlaceholderTokens }

(* the patterns of the tests of execution_builder.rs, and three more: a    *)
(* quoted segment of two placeholders, an unbalanced brace, a diagnostic   *)
(* followed by text                                                        *)
TestPatterns ==
    { <<"vi", SP>> \o PH(<<"file">>),
      <<SEP, "bin", SEP, "e.exe", SP, "-a", SP>> \o PH(<<"a">>)
          \o <<SP, "-e", SP>> \o PH(<<"file">>),
      <<"xterm", SP, "-e", SP, DQ, "kak", SP>> \o PH(<<"file">>) \o <<DQ>>,
      <<"vi", SP, DQ>> \o PH(<<"a">>) \o <<SP>> \o PH(<<"u">>) \o <<DQ>>,
      <<"vi", SP, LB>> \o PH(<<"line">>) \o <<RB, TAB, LB, "a", COLON, RB>>,
      <<"vi", SP, SP>> \o PHF(<<"a">>, <<"bad">>) \o <<"x", SP>>
          \o PH(<<"other-panel-parent">>) }

Patterns == PieceSeqs(MaxPieces) \cup PlaceholderPatterns \cup TestPatterns

Selections ==
    { [path |-> <<SEP, "d", SEP, "f">>, line |-> 0],
      [path |-> <<SEP, "my", SP, "dir", SEP>> \o PH(<<"file">>), line |-> 12],
      [path |-> <<SEP>>, line |-> 0] }

OtherFiles ==
    { None, Some(<<SEP>>), Some(<<SEP, "d", SEP, "f">>) }

Parsers ==
    { None,
      Some([prefix |-> <<"x", SP>>, group |-> <<"a">>]),
      Some([prefix |-> <<>>, group |-> <<"file">>]) }

InvocationArgs ==
    { None,
      Some(<<"x", SP, "deux", SP>> \o PH(<<"file">>)),
      Some(PH(<<"line">>)) }

IEArgs ==
    { None, Some(<<"~">>), Some(<<>>), Some(<<SP, "~">>), Some(<<"~", SP>>),
      Some(<<"a", SP, SP, "b">>), Some(<<BANG, "x">>) }

InternalExecutions ==
    [internal : Internals, bang : BOOLEAN, arg : IEArgs]

InvocationStrings ==
    { c \o n \o b \o a :
        c \in { <<>>, <<COLON>>, <<SP>> },
        n \in { <<"focus">>, <<"back">>, <<"nope">>, <<>> },
        b \in { <<>>, <<BANG>> },
        a \in { <<>>, <<SP>>, <<SP, "~">>, <<SP, SP, "a", SP, "b", SP>> } }

---------------------------------------------------------------------------
(* The state *)

VARIABLES
    invocation_parser,  \* the parser handed to from_invocation
    invocation_args,    \* the arguments handed to from_invocation
    builder,            \* the ExecutionStringBuilder, None before construction
    exec_pattern,       \* the pattern of the last expansion
    output,             \* what the last expansion returned
    calls,              \* the closure calls of the last expansion
    ie,                 \* the InternalExecution at hand
    desc,               \* what ie.as_desc_code() returned
    invocation_str,     \* the string of the last InternalExecution::try_from
    parsed              \* what that try_from returned

vars == << invocation_parser, invocation_args, builder, exec_pattern, output,
           calls, ie, desc, invocation_str, parsed >>

builder_vars ==
    << invocation_parser, invocation_args, builder, exec_pattern, output,
       calls >>

ie_vars == << ie, desc, invocation_str, parsed >>

NoOutput == [mode |-> "none"]
NotCalled == [called |-> FALSE]
NoResult == [ok |-> FALSE, err |-> "none"]

Init ==
    /\ invocation_parser = None
    /\ invocation_args = None
    /\ builder = None
    /\ exec_pattern = None
    /\ output = NoOutput
    /\ calls = <<>>
    /\ ie = None
    /\ desc = NotCalled
    /\ invocation_str = None
    /\ parsed = NoResult

(* a builder is made for one execution attempt and dropped after it *)
FromSelection ==
    \E sel \in Selections :
        /\ ~builder.some
        /\ builder' = Some(from_selection(sel))
        /\ invocation_parser' = None
        /\ invocation_args' = None
        /\ exec_pattern' = None
        /\ output' = NoOutput
        /\ calls' = <<>>
        /\ UNCHANGED ie_vars

FromInvocation ==
    \E parser \in Parsers, sel \in Selections, other \in OtherFiles,
       args \in InvocationArgs :
        /\ ~builder.some
        /\ builder' = Some(from_invocation(parser, sel, other, args))
        /\ invocation_parser' = parser
        /\ invocation_args' = args
        /\ exec_pattern' = None
        /\ output' = NoOutput
        /\ calls' = <<>>
        /\ UNCHANGED ie_vars

ShellExecString ==
    \E pattern \in Patterns :
        /\ builder.some
        /\ output = NoOutput
        /\ exec_pattern' = Some(pattern)
        /\ output' = [mode |-> "shell",
                      text |-> shell_exec_string(builder.val, pattern)]
        /\ calls' = ShellCalls(builder.val, pattern)
        /\ UNCHANGED << invocation_parser, invocation_args, builder >>
        /\ UNCHANGED ie_vars

ExecToken ==
    \E pattern \in Patterns :
        /\ builder.some
        /\ output = NoOutput
        /\ exec_pattern' = Some(pattern)
        /\ output' = [mode |-> "token",
                      tokens |-> exec_token(builder.val, pattern)]
        /\ calls' = TokenCalls(builder.val, pattern)
        /\ UNCHANGED << invocation_parser, invocation_args, builder >>
        /\ UNCHANGED ie_vars

Next == FromSelection \/ FromInvocation \/ ShellExecString \/ ExecToken

Spec == Init /\ [][Next]_vars

(* InternalExecution: a struct of public fields *)
Construct ==
    \E x \in InternalExecutions :
        /\ ~ie.some
        /\ ie' = Some(x)
        /\ desc' = NotCalled
        /\ invocation_str' = None
        /\ parsed' = NoResult
        /\ UNCHANGED builder_vars

FromInternal ==
    \E internal \in Internals :
        /\ ~ie.some
        /\ ie' = Some(from_internal(internal))
        /\ desc' = NotCalled
        /\ invocation_str' = None
        /\ parsed' = NoResult
        /\ UNCHANGED builder_vars

FromInternalBang ==
    \E internal \in Internals, bang \in BOOLEAN :
        /\ ~ie.some
        /\ ie' = Some(from_internal_bang(internal, bang))
        /\ desc' = NotCalled
        /\ invocation_str' = None
        /\ parsed' = NoResult
        /\ UNCHANGED builder_vars

AsDescCode ==
    /\ ie.some
    /\ ~desc.called
    /\ desc' = [called |-> TRUE, val |-> as_desc_code(ie.val)]
    /\ invocation_str' = None
    /\ parsed' = NoResult
    /\ UNCHANGED ie
    /\ UNCHANGED builder_vars

(* try_from on a typed string, or on the description just rendered *)
TryFrom ==
    \E s \in InvocationStrings
             \cup (IF desc.called /\ desc.val.some THEN {desc.val.val} ELSE {}) :
        /\ ~invocation_str.some
        /\ invocation_str' = Some(s)
        /\ parsed' = try_from(s)
        /\ UNCHANGED << ie, desc >>
        /\ UNCHANGED builder_vars

NextIE ==
    Construct \/ FromInternal \/ FromInternalBang \/ AsDescCode \/ TryFrom

SpecIE == Init /\ [][NextIE]_vars

---------------------------------------------------------------------------
(* Vocabulary of the properties *)

(* sub occurs in s as a contiguous piece *)
Contains(s, sub) ==
    \E i \in 0..(Len(s) - Len(sub)) : SubSeq(s, i + 1, i + Len(sub)) = sub

HasWhitespace(s) == \E i \in 1..Len(s) : IsWhitespace(s[i])

(* no tab, no leading, trailing or doubled space *)
SingleSpaced(s) ==
    /\ \A i \in 1..Len(s) : s[i] # TAB
    /\ s # <<>> => ~IsWhitespace(s[1]) /\ ~IsWhitespace(s[Len(s)])
    /\ \A i \in 1..(Len(s) - 1) : ~(IsWhitespace(s[i]) /\ IsWhitespace(s[i + 1]))

(* the placeholder tokens of a text, left to right *)
RECURSIVE PlaceholdersFrom(_, _)
PlaceholdersFrom(s, i) ==
    IF i > Len(s) THEN <<>>
    ELSE LET ec == GROUP(s, i) IN
         IF ec.ok THEN <<ec>> \o PlaceholdersFrom(s, ec.end + 1)
         ELSE PlaceholdersFrom(s, i + 1)

Placeholders(s) == PlaceholdersFrom(s, 1)

HasPlaceholder(s) == Placeholders(s) # <<>>

(* Quote-aware whitespace tokens, read off one character at a time: cur is *)
(* the token being read (empty between tokens), quoted tells whether it    *)
(* opened with a double quote.  Whitespace ends a token unless the token   *)
(* is quoted and its closing quote has not just been read.                 *)
RECURSIVE Scan(_, _, _, _)
Scan(s, cur, quoted, acc) ==
    IF s = <<>>
    THEN IF cur = <<>> THEN acc
         ELSE Append(acc, [text |-> cur, quoted |-> quoted])
    ELSE LET c == Head(s) IN
         IF cur = <<>>
         THEN IF IsWhitespace(c) THEN Scan(Tail(s), <<>>, FALSE, acc)
              ELSE Scan(Tail(s), <<c>>, c = DQ, acc)
         ELSE IF IsWhitespace(c)
                 /\ (~quoted \/ (Len(cur) >= 2 /\ cur[Len(cur)] = DQ))
              THEN Scan(Tail(s), <<>>, FALSE,
                        Append(acc, [text |-> cur, quoted |-> quoted]))
              ELSE Scan(Tail(s), Append(cur, c), quoted, acc)

QuoteAwareTokens(s) == Scan(s, <<>>, FALSE, <<>>)

(* a token without the quotes that delimit it *)
Unquoted(tok) ==
    IF ~tok.quoted THEN tok.text
    ELSE IF Len(tok.text) >= 2 /\ tok.text[Len(tok.text)] = DQ
         THEN SubSeq(tok.text, 2, Len(tok.text) - 1)
         ELSE Tail(tok.text)

(* the output holds the text t: in the string, or in one argument *)
OutputHolds(t) ==
    CASE output.mode = "shell" -> Contains(output.text, t)
      [] output.mode = "token" ->
             \E i \in 1..Len(output.tokens) : Contains(output.tokens[i], t)
      [] OTHER -> FALSE

Expanded == output.mode \in {"shell", "token"}

ValidFormats == { <<"path-from-directory">>, <<"path-from-parent">> }

(* the name has no value: not standard, and no entry in the map *)
Unknown(name) ==
    /\ name \notin StandardNames
    /\ ~(builder.val.invocation_values.some
         /\ name \in DOMAIN builder.val.invocation_values.val)

(* the diagnostic for a format made of ordinary characters *)
Diagnostic(fmt) == <<"invalid", SP, "format", COLON, SP, DQ>> \o fmt \o <<DQ>>

---------------------------------------------------------------------------
(* C1: in argument-vector mode the arguments are the quote-aware tokens of *)
(* the raw pattern, one argument per token, each the token without its     *)
(* quotes and with its placeholders expanded unescaped; a value with       *)
(* whitespace adds no argument.                                            *)
C1_TokenBoundariesFromPattern ==
    output.mode = "token" =>
        LET toks == QuoteAwareTokens(exec_pattern.val) IN
        /\ Len(output.tokens) = Len(toks)
        /\ \A i \in 1..Len(toks) :
              output.tokens[i] = replace_all(builder.val, Unquoted(toks[i]), FALSE)

(* a value holding a space was substituted into one argument of several *)
C1_Witness ==
    /\ output.mode = "token"
    /\ Len(output.tokens) >= 2
    /\ \E k \in 1..Len(calls) :
          /\ calls[k].ec.name = <<"a">>
          /\ HasWhitespace(calls[k].text)
          /\ \E i \in 1..Len(output.tokens) : output.tokens[i] = calls[k].text

---------------------------------------------------------------------------
(* C2 as stated: every placeholder token of the pattern whose name is      *)
(* unknown is in the output exactly as written in the pattern.             *)
C2_UnknownPlaceholderKeptAsWritten ==
    Expanded =>
        LET phs == Placeholders(exec_pattern.val) IN
        \A k \in 1..Len(phs) :
            Unknown(phs[k].name) =>
                OutputHolds(SubSeq(exec_pattern.val, phs[k].start, phs[k].end))

(* C2 amended: every placeholder token of the pattern whose name is        *)
(* unknown and whose text holds no whitespace is in the output exactly as  *)
(* written in the pattern, in both modes.                                  *)
C2_UnknownPlaceholderWithoutWhitespaceKept ==
    Expanded =>
        LET phs == Placeholders(exec_pattern.val) IN
        \A k \in 1..Len(phs) :
            LET written == SubSeq(exec_pattern.val, phs[k].start, phs[k].end) IN
            (Unknown(phs[k].name) /\ ~HasWhitespace(written)) =>
                OutputHolds(written)

(* an unknown {u:bad} was expanded with a map that has other keys *)
C2_Witness ==
    /\ Expanded
    /\ builder.val.invocation_values.some
    /\ \E k \in 1..Len(calls) :
          /\ calls[k].ec.name = <<"u">>
          /\ calls[k].ec.fmt.some
          /\ OutputHolds(PHF(<<"u">>, <<"bad">>))

---------------------------------------------------------------------------
(* C3 as stated: every placeholder with a format that is neither           *)
(* path-from-directory nor path-from-parent is replaced by the diagnostic  *)
(* naming the format.                                                      *)
C3_InvalidFormatAlwaysDiagnostic ==
    \A k \in 1..Len(calls) :
        (calls[k].ec.fmt.some /\ calls[k].ec.fmt.val \notin ValidFormats) =>
            calls[k].text = Diagnostic(calls[k].ec.fmt.val)

(* C3 amended: a placeholder whose name is not standard and has a value in *)
(* the invocation map, with a format that is neither path-from-directory   *)
(* nor path-from-parent, is replaced by the diagnostic naming the format,  *)
(* and the output holds the diagnostic, in both modes.                     *)
C3_InvalidFormatOfKnownValueDiagnostic ==
    Expanded =>
        \A k \in 1..Len(calls) :
            LET ec == calls[k].ec IN
            (/\ ec.fmt.some
             /\ ec.fmt.val \notin ValidFormats
             /\ ec.name \notin StandardNames
             /\ ~Unknown(ec.name)) =>
                /\ calls[k].text = Diagnostic(ec.fmt.val)
                /\ OutputHolds(Diagnostic(ec.fmt.val))

(* {a:bad} was expanded into a shell string with a value for a *)
C3_Witness ==
    /\ output.mode = "shell"
    /\ \E k \in 1..Len(calls) :
          /\ calls[k].ec.name = <<"a">>
          /\ calls[k].ec.fmt = Some(<<"bad">>)
          /\ ~Unknown(<<"a">>)

---------------------------------------------------------------------------
(* the invocation maps another builder may hold *)
OtherMaps ==
    { None }
    \cup { Some(k :> v) :
              k \in { <<"a">>, <<"file">>, <<"parent">>, <<"other-panel-file">> },
              v \in { <<>>, <<"v">> } }

(* C5: the text replacing a standard name is the same whatever the         *)
(* invocation map of the builder is, a map with a standard name as key     *)
(* included, in both modes.                                                *)
C5_StandardNamesIgnoreMap ==
    \A k \in 1..Len(calls) :
        calls[k].ec.name \in StandardNames =>
            \A m \in OtherMaps :
                get_capture_replacement(
                    [builder.val EXCEPT !.invocation_values = m],
                    calls[k].ec, calls[k].escape) = calls[k].text

(* {file} was expanded by a builder whose map has the key file *)
C5_Witness ==
    /\ Expanded
    /\ builder.val.invocation_values.some
    /\ <<"file">> \in DOMAIN builder.val.invocation_values.val
    /\ \E k \in 1..Len(calls) :
          /\ calls[k].ec.name = <<"file">>
          /\ calls[k].text # builder.val.invocation_values.val[<<"file">>]

---------------------------------------------------------------------------
RECURSIVE SpaceJoined(_)
SpaceJoined(ts) ==
    IF Len(ts) = 0 THEN <<>>
    ELSE IF Len(ts) = 1 THEN Head(ts)
    ELSE Head(ts) \o <<SP>> \o SpaceJoined(Tail(ts))

XtermPattern ==
    <<"xterm", SP, "-e", SP, DQ, "kak", SP>> \o PH(<<"file">>) \o <<DQ>>

(* a double-quoted segment: closed, and not empty *)
ProperlyQuoted(tok) ==
    tok.quoted /\ Len(tok.text) >= 3 /\ tok.text[Len(tok.text)] = DQ

(* C6 as stated: the shell string is the quote-aware tokens of the         *)
(* expanded pattern, each double-quoted segment one token with its quotes  *)
(* stripped, joined by single spaces; xterm -e "kak {file}" gives          *)
(* xterm -e kak /d/f.                                                      *)
C6_ShellStringStripsQuotes ==
    output.mode = "shell" =>
        LET toks == QuoteAwareTokens(
                        replace_all(builder.val, exec_pattern.val, TRUE)) IN
        /\ (\A i \in 1..Len(toks) : toks[i].quoted => ProperlyQuoted(toks[i])) =>
               output.text =
                   SpaceJoined([i \in 1..Len(toks) |-> Unquoted(toks[i])])
        /\ (exec_pattern.val = XtermPattern
            /\ builder.val.sel.path = <<SEP, "d", SEP, "f">>) =>
               output.text = <<"xterm", SP, "-e", SP, "kak", SP,
                               SEP, "d", SEP, "f">>

(* C6 amended: the shell string is the quote-aware tokens of the expanded  *)
(* pattern, each double-quoted segment one token that keeps its quotes,    *)
(* joined by single spaces; xterm -e "kak {file}" gives                    *)
(* xterm -e "kak /d/f".                                                    *)
C6_ShellStringKeepsQuotes ==
    output.mode = "shell" =>
        LET toks == QuoteAwareTokens(
                        replace_all(builder.val, exec_pattern.val, TRUE)) IN
        /\ output.text = SpaceJoined([i \in 1..Len(toks) |-> toks[i].text])
        /\ (exec_pattern.val = XtermPattern
            /\ builder.val.sel.path = <<SEP, "d", SEP, "f">>) =>
               output.text = <<"xterm", SP, "-e", SP, DQ, "kak", SP,
                               SEP, "d", SEP, "f", DQ>>

(* the xterm pattern was expanded into a shell string for /d/f *)
C6_Witness ==
    /\ output.mode = "shell"
    /\ exec_pattern.val = XtermPattern
    /\ builder.val.sel.path = <<SEP, "d", SEP, "f">>

---------------------------------------------------------------------------
Counterpart(name) ==
    CASE name = <<"other-panel-file">> -> <<"file">>
      [] name = <<"other-panel-directory">> -> <<"directory">>
      [] name = <<"other-panel-parent">> -> <<"parent">>

(* C7: with an other-panel path p, an other-panel placeholder is replaced  *)
(* by what file, directory or parent is replaced by for a selection of     *)
(* path p.                                                                 *)
C7_OtherPanelSameDerivations ==
    \A k \in 1..Len(calls) :
        LET c == calls[k] IN
        (/\ builder.val.other_file.some
         /\ c.ec.name \in { <<"other-panel-file">>, <<"other-panel-directory">>,
                            <<"other-panel-parent">> }) =>
            c.text = get_capture_replacement(
                         from_selection([path |-> builder.val.other_file.val,
                                         line |-> builder.val.sel.line]),
                         [c.ec EXCEPT !.name = Counterpart(c.ec.name)],
                         c.escape)

---------------------------------------------------------------------------
LineText(line) == IF line = 0 THEN <<"0">> ELSE <<"1", "2">>

(* C8: when the parser is absent, or the arguments are absent, or the      *)
(* parser does not match them, the builder has no invocation map, and an   *)
(* expansion replaces file, line and parent from the selection and every   *)
(* name that is not standard by its own placeholder text.                  *)
C8_NoMapFallsBackToStandard ==
    (/\ builder.some
     /\ \/ ~invocation_parser.some
        \/ ~invocation_args.some
        \/ ~parse(invocation_parser.val, invocation_args.val).some) =>
        /\ ~builder.val.invocation_values.some
        /\ \A k \in 1..Len(calls) :
              LET c == calls[k]
                  sel == builder.val.sel
              IN
              /\ c.ec.name \notin StandardNames =>
                    c.text = <<LB>> \o c.ec.name
                             \o (IF c.ec.fmt.some
                                 THEN <<COLON>> \o c.ec.fmt.val ELSE <<>>)
                             \o <<RB>>
              /\ c.ec.name = <<"line">> => c.text = LineText(sel.line)
              /\ (c.ec.name = <<"file">> /\ ~c.escape) => c.text = sel.path
              /\ (c.ec.name = <<"parent">> /\ ~c.escape
                  /\ sel.path = <<SEP, "d", SEP, "f">>) => c.text = <<SEP, "d">>

(* a parser that has the group a did not match the arguments, and {a} and  *)
(* {file} were expanded                                                     *)
C8_Witness ==
    /\ Expanded
    /\ invocation_parser.some
    /\ invocation_args.some
    /\ ~builder.val.invocation_values.some
    /\ \E k \in 1..Len(calls) : calls[k].ec.name = <<"a">>
    /\ \E k \in 1..Len(calls) : calls[k].ec.name = <<"file">>

---------------------------------------------------------------------------
(* C10: the text a placeholder is replaced by is in the output as it was   *)
(* returned (single spaces only, which the shell mode keeps), also when it *)
(* holds a placeholder: it is not expanded again.                          *)
C10_SinglePass ==
    Expanded =>
        \A k \in 1..Len(calls) :
            SingleSpaced(calls[k].text) => OutputHolds(calls[k].text)

(* the value of a, which holds {file}, was substituted *)
C10_Witness ==
    /\ Expanded
    /\ \E k \in 1..Len(calls) :
          /\ calls[k].ec.name = <<"a">>
          /\ ~calls[k].ec.fmt.some
          /\ Contains(calls[k].text, PH(<<"file">>))
          /\ OutputHolds(PH(<<"file">>))

---------------------------------------------------------------------------
(* C4: rendering an InternalExecution that has an argument and parsing the *)
(* rendering gives back the same internal, bang and argument.              *)
C4_RoundTrip ==
    (/\ ie.some
     /\ desc.called
     /\ desc.val.some
     /\ invocation_str = desc.val) =>
        /\ parsed.ok
        /\ parsed.val = ie.val

(* C9: try_from fails with a configuration error exactly when the name of  *)
(* the parsed invocation is not in the catalog; otherwise the result has   *)
(* the internal of that name and the bang and arguments of the invocation. *)
C9_TryFromResult ==
    invocation_str.some =>
        LET invocation == VerbInvocationFrom(invocation_str.val)
            known == \E i \in Internals : InternalName(i) = invocation.name
        IN
        /\ ~known <=> parsed = ConfError
        /\ known =>
              /\ parsed.ok
              /\ InternalName(parsed.val.internal) = invocation.name
              /\ parsed.val.bang = invocation.bang
              /\ parsed.val.arg = invocation.args

(* a string with a bang and arguments was parsed into an InternalExecution *)
C9_Witness ==
    /\ invocation_str.some
    /\ parsed.ok
    /\ parsed.val.bang
    /\ parsed.val.arg.some

=============================================================================
